---- MODULE Spec2Model ----
(***************************************************************************)
(* OpenAIProvider.generateAnswer (src/unnamed/part_000) driven by the SSE  *)
(* transport fetchSSE.  The provider's frame handler onMessage is          *)
(* translated from the source; fetchSSE itself is imported from            *)
(* '../fetch-sse', which is not among the source files, and is modelled    *)
(* from section 4.1 of the specification.                                  *)
(***************************************************************************)
EXTENDS Integers, Sequences, FiniteSets, TLC

\* Bound: the number of frames the transport delivers to one call.
MaxFrames == 3

VARIABLES
    pc,          \* position of generateAnswer: "idle", "awaiting", "returned", "rejected"
    transport,   \* state of the fetchSSE call
    aborted,     \* params.signal.aborted
    result,      \* let result (line 19)
    messageId,   \* let messageId (line 20)
    events,      \* the events handed to params.onEvent, in order
    frames       \* history: the payloads the transport handed to onMessage, in order

vars == <<pc, transport, aborted, result, messageId, events, frames>>

----------------------------------------------------------------------------
(* Frame payloads.  A payload is the text of one SSE event; it is described *)
(* by what JSON.parse makes of it.                                         *)

\* data.id: "" stands for an absent (or empty, equally falsy) id.
Ids == {"", "m1", "m2"}

\* choices[0] of a parsed payload: its finish_reason and its delta.content
\* (hasContent = FALSE: delta or delta.content is absent).
Choices ==
    { [finish |-> "null",   hasContent |-> TRUE,  content |-> "Hel"],
      [finish |-> "null",   hasContent |-> TRUE,  content |-> "lo"],
      [finish |-> "null",   hasContent |-> TRUE,  content |-> ""],
      [finish |-> "null",   hasContent |-> FALSE, content |-> ""],
      [finish |-> "stop",   hasContent |-> FALSE, content |-> ""],
      [finish |-> "stop",   hasContent |-> TRUE,  content |-> "lo"],
      [finish |-> "length", hasContent |-> TRUE,  content |-> "lo"] }

NoChoice == [finish |-> "null", hasContent |-> FALSE, content |-> ""]

\* A payload: what it is (kind), data.id, the length of data.choices
\* ("absent", "empty", "one", "two"), choices[0] (first) and choices[1] (second).
Sentinel  == [kind |-> "sentinel",  id |-> "", choices |-> "absent",
              first |-> NoChoice, second |-> NoChoice]
Malformed == [kind |-> "malformed", id |-> "", choices |-> "absent",
              first |-> NoChoice, second |-> NoChoice]
JsonNull  == [kind |-> "null",      id |-> "", choices |-> "absent",
              first |-> NoChoice, second |-> NoChoice]

\* Every shape of payload comes without an id and with the id "m1"; a second,
\* different id "m2" comes on a content delta and on a payload without choices.
CarriesSecondId(f) ==
    \/ f.choices = "absent"
    \/ f.choices = "one" /\ f.first.finish = "null" /\ f.first.content = "Hel"

ObjectFrames ==
    { f \in [kind : {"object"}, id : Ids, choices : {"one"}, first : Choices,
             second : {NoChoice}]
             \cup [kind : {"object"}, id : Ids, choices : {"absent", "empty"},
                   first : {NoChoice}, second : {NoChoice}] :
          f.id = "m2" => CarriesSecondId(f) }

\* Payloads with two choices: the second one carries a delta or a finish
\* reason that the first one does not.
TwoChoiceFrames ==
    { [kind |-> "object", id |-> "", choices |-> "two", first |-> c[1], second |-> c[2]] :
        c \in { << [finish |-> "null", hasContent |-> TRUE,  content |-> "Hel"],
                   [finish |-> "stop", hasContent |-> TRUE,  content |-> "lo"] >>,
                << [finish |-> "null", hasContent |-> FALSE, content |-> ""],
                   [finish |-> "null", hasContent |-> TRUE,  content |-> "lo"] >>,
                << [finish |-> "stop", hasContent |-> FALSE, content |-> ""],
                   [finish |-> "null", hasContent |-> TRUE,  content |-> "lo"] >> } }

Frames == {Sentinel, Malformed, JsonNull} \cup ObjectFrames \cup TwoChoiceFrames

----------------------------------------------------------------------------
(* The frame handler, onMessage (lines 33-71).                             *)

DoneEvent == [type |-> "done"]

\* Variant of AnswerEvent that leaves the conversation id empty.
AnswerEventNoConversation(text, id) ==
    [type |-> "answer", text |-> text, messageId |-> id, conversationId |-> ""]

AnswerEvent(text, id) ==
    [type |-> "answer", text |-> text, messageId |-> id, conversationId |-> id]

\* message === '[DONE]'
IsSentinel(message) == message.kind = "sentinel"

\* JSON.parse(message) throws on a payload that is not JSON.
JsonParseThrows(message) == message.kind \in {"malformed", "sentinel"}

\* data.id / data.choices on a parsed null throws a TypeError.
PropertyAccessThrows(message) == message.kind = "null"

\* Variant of RecordId that overwrites a recorded id: if (data.id) messageId = data.id
RecordIdLast(mid, data) == IF data.id # "" THEN data.id ELSE mid

\* if (!messageId && data.id) messageId = data.id
RecordId(mid, data) == IF mid = "" /\ data.id # "" THEN data.id ELSE mid

\* data.choices && data.choices.length > 0
HasChoices(data) == data.choices \in {"one", "two"}

\* Variant of FirstChoice that reads the last element: data.choices[data.choices.length - 1]
LastChoice(data) == IF data.choices = "two" THEN data.second ELSE data.first

\* const { delta, finish_reason } = data.choices[0]
FirstChoice(data) == data.first

\* Variant of IsStop that takes any finish reason for the end: finish_reason != null
IsStopAnyFinish(choice) == choice.finish # "null"

\* Variant of IsStop that reads the delta first: a stop choice with content is a delta.
IsStopWithoutDelta(choice) == choice.finish = "stop" /\ ~choice.hasContent

\* finish_reason === 'stop'
IsStop(choice) == choice.finish = "stop"

\* delta?.content || ''
DeltaContent(choice) == IF choice.hasContent THEN choice.content ELSE ""

\* Variant of ShouldEmit without the guard on the content.
ShouldEmitAlways(content) == TRUE

\* if (content)
ShouldEmit(content) == content # ""

\* Variant of AccumulateResult that puts the delta in front: result = content + result
PrependResult(res, content) == content \o res

\* Variant of AccumulateResult that keeps the delta only: result = content
ReplaceResult(res, content) == content

\* result += content
AccumulateResult(res, content) == res \o content

\* Variant of OnParseError that reports the failure to the caller.
OnParseErrorFatal(res, mid) ==
    [result |-> res, messageId |-> mid, emitted |-> <<[type |-> "error"]>>]

\* catch (err) { console.error(err); return }
OnParseError(res, mid) == [result |-> res, messageId |-> mid, emitted |-> <<>>]

\* Variant of OnSentinel that flushes the answer together with the completion.
OnSentinelFlush(res, mid) ==
    [result |-> res, messageId |-> mid, emitted |-> <<AnswerEvent(res, mid), DoneEvent>>]

\* if (message === '[DONE]') { params.onEvent({ type: 'done' }); return }
OnSentinel(res, mid) == [result |-> res, messageId |-> mid, emitted |-> <<DoneEvent>>]

\* The whole handler: the new result and messageId and the events it emits.
OnMessage(res, mid, message) ==
    IF IsSentinel(message)
    THEN OnSentinel(res, mid)
    ELSE IF JsonParseThrows(message) \/ PropertyAccessThrows(message)
    THEN OnParseError(res, mid)
    ELSE LET id2 == RecordId(mid, message) IN
         IF ~HasChoices(message)
         THEN [result |-> res, messageId |-> id2, emitted |-> <<>>]
         ELSE IF IsStop(FirstChoice(message))
         THEN [result |-> res, messageId |-> id2, emitted |-> <<DoneEvent>>]
         ELSE LET content == DeltaContent(FirstChoice(message)) IN
              IF ShouldEmit(content)
              THEN LET res2 == AccumulateResult(res, content) IN
                   [result |-> res2, messageId |-> id2,
                    emitted |-> <<AnswerEvent(res2, id2)>>]
              ELSE [result |-> res, messageId |-> id2, emitted |-> <<>>]

----------------------------------------------------------------------------
(* generateAnswer (lines 18-74) and the transport it awaits.               *)

\* Variant of TransportSignal: the request is issued without the caller's signal.
NoSignal == FALSE

\* signal: params.signal (line 23): the transport observes the caller's signal.
TransportSignal == aborted

Init ==
    /\ pc = "idle"
    /\ transport = "idle"
    /\ aborted = FALSE
    /\ result = ""
    /\ messageId = ""
    /\ events = <<>>
    /\ frames = <<>>

\* The caller triggers its cancellation signal (at any time before the call ends).
Abort ==
    /\ pc \in {"idle", "awaiting"}
    /\ ~aborted
    /\ aborted' = TRUE
    /\ UNCHANGED <<pc, transport, result, messageId, events, frames>>

\* generateAnswer is called: result = '', messageId = '', await fetchSSE(...).
\* fetchSSE fails at once on a triggered signal or on a request-setup error;
\* otherwise the request is issued.
Call ==
    /\ pc = "idle"
    /\ pc' = "awaiting"
    /\ result' = ""
    /\ messageId' = ""
    /\ \/ /\ TransportSignal
          /\ transport' = "aborted"
       \/ /\ ~TransportSignal
          /\ transport' \in {"requested", "setupError"}
    /\ UNCHANGED <<aborted, events, frames>>

\* The response headers arrive: a failure status is an HTTP error, no frame is parsed.
Respond ==
    /\ transport = "requested"
    /\ ~TransportSignal
    /\ transport' \in {"streaming", "httpError"}
    /\ UNCHANGED <<pc, aborted, result, messageId, events, frames>>

\* The transport completes a frame and invokes onMessage with its payload.
Deliver ==
    /\ transport = "streaming"
    /\ ~TransportSignal
    /\ Len(frames) < MaxFrames
    /\ \E message \in Frames :
          LET r == OnMessage(result, messageId, message) IN
          /\ result' = r.result
          /\ messageId' = r.messageId
          /\ events' = events \o r.emitted
          /\ frames' = Append(frames, message)
    /\ UNCHANGED <<pc, transport, aborted>>

\* The stream ends naturally: no more bytes.
StreamEnd ==
    /\ transport = "streaming"
    /\ ~TransportSignal
    /\ transport' = "ended"
    /\ UNCHANGED <<pc, aborted, result, messageId, events, frames>>

\* A network or decode failure while reading the body.
StreamReadError ==
    /\ transport = "streaming"
    /\ ~TransportSignal
    /\ transport' = "readError"
    /\ UNCHANGED <<pc, aborted, result, messageId, events, frames>>

\* The signal fired while the request or the read was in flight: the transport
\* stops without invoking the callback again.
Cancelled ==
    /\ transport \in {"requested", "streaming"}
    /\ TransportSignal
    /\ transport' = "aborted"
    /\ UNCHANGED <<pc, aborted, result, messageId, events, frames>>

TransportFailed == transport \in {"setupError", "httpError", "readError", "aborted"}

\* Variant of Return without the await: generateAnswer returns while the
\* transport is still running.
ReturnEarly ==
    /\ pc = "awaiting"
    /\ pc' = "returned"
    /\ UNCHANGED <<transport, aborted, result, messageId, events, frames>>

\* await fetchSSE(...) resolves; return {} (line 73).
Return ==
    /\ pc = "awaiting"
    /\ transport = "ended"
    /\ pc' = "returned"
    /\ UNCHANGED <<transport, aborted, result, messageId, events, frames>>

\* await fetchSSE(...) throws: generateAnswer has no try/catch around it, so
\* the promise it returned is rejected and no event is emitted.
Reject ==
    /\ pc = "awaiting"
    /\ TransportFailed
    /\ pc' = "rejected"
    /\ UNCHANGED <<transport, aborted, result, messageId, events, frames>>

Next ==
    \/ Abort
    \/ Call
    \/ Respond
    \/ Deliver
    \/ StreamEnd
    \/ StreamReadError
    \/ Cancelled
    \/ Return
    \/ Reject

Spec == Init /\ [][Next]_vars

----------------------------------------------------------------------------
(* Vocabulary of the properties.                                           *)

IsPrefix(s, t) == Len(s) <= Len(t) /\ SubSeq(t, 1, Len(s)) = s

IsAnswer(e) == e.type = "answer"
Answers(evs) == SelectSeq(evs, IsAnswer)

IsDone(e) == e.type = "done"
NumDone(evs) == Len(SelectSeq(evs, IsDone))

IsError(e) == e.type = "error"
NumError(evs) == Len(SelectSeq(evs, IsError))

Finished == pc \in {"returned", "rejected"}

\* The text delta a payload carries on the wire: delta.content of its first
\* choice, empty when there is none.
FrameDelta(f) ==
    IF f.kind = "object" /\ f.choices \in {"one", "two"} /\ f.first.hasContent
    THEN f.first.content ELSE ""

\* A payload whose first choice has finish_reason "stop".
IsStopFrame(f) ==
    f.kind = "object" /\ f.choices \in {"one", "two"} /\ f.first.finish = "stop"

\* A completion frame: the sentinel or a stop frame.
IsCompletion(f) == f = Sentinel \/ IsStopFrame(f)

\* A well-formed JSON frame that does not complete the stream.
IsDeltaFrame(f) == f.kind = "object" /\ ~IsStopFrame(f)

\* The id of the first of fs[1..n] that carries one, "" when none does.
FirstIdUpTo(fs, n) ==
    LET carriers == {i \in 1..n : fs[i].id # ""} IN
    IF carriers = {} THEN ""
    ELSE fs[CHOOSE i \in carriers : \A j \in carriers : i <= j].id

\* The concatenation, in frame order, of the deltas of fs[1..n].
RECURSIVE TextUpTo(_, _)
TextUpTo(fs, n) ==
    IF n = 0 THEN "" ELSE TextUpTo(fs, n - 1) \o FrameDelta(fs[n])

----------------------------------------------------------------------------
(* Terminal events.                                                        *)

\* C1: every call produces exactly one terminal event: never two (a stop
\* frame followed by the sentinel yields a single Done), and a call that has
\* finished by a sentinel, a stop frame, a natural end or a transport error
\* has produced one.
C1_ExactlyOneTerminal ==
    /\ NumDone(events) + NumError(events) <= 1
    /\ (Finished /\ ~aborted) => NumDone(events) + NumError(events) = 1

\* C2: once Done has been emitted, a further frame emits no event and leaves
\* the accumulated text and the recorded identifier unchanged.
C2_NothingAfterDone ==
    [][NumDone(events) > 0 =>
          (events' = events /\ result' = result /\ messageId' = messageId)]_vars

\* C3: a stream that ends naturally without Done makes the call emit a
\* terminal Error before generateAnswer finishes.
C3_ErrorOnNaturalEnd ==
    (Finished /\ transport = "ended" /\ NumDone(events) = 0)
        => (events # <<>> /\ IsError(events[Len(events)]))

\* C4: a request-setup, HTTP-status or mid-stream read error reaches the
\* caller as a terminal Error event, and no Done follows it.
C4_TransportErrorEvent ==
    (Finished /\ transport \in {"setupError", "httpError", "readError"})
        => (events # <<>> /\ IsError(events[Len(events)]))

----------------------------------------------------------------------------
(* Accumulation and identity.                                              *)

\* C5: the text of every Answer event is the cumulative answer so far, and
\* of two consecutive Answer events the first text is a prefix of the second.
C5_PrefixExtending ==
    LET A == Answers(events) IN
    /\ \A i \in 1..(Len(A) - 1) : IsPrefix(A[i].text, A[i + 1].text)
    /\ A # <<>> => A[Len(A)].text = result

C5_Witness ==
    LET A == Answers(events) IN
    /\ Len(A) >= 2
    /\ A[1].text = "Hel"
    /\ A[2].text = "Hello"

\* The events a stream fs[1..n] of delta frames and sentinels is to produce:
\* per frame with a non-empty delta one Answer carrying all deltas so far and
\* the first id so far, per sentinel one Done.
RECURSIVE ExpectedEvents(_, _)
ExpectedEvents(fs, n) ==
    IF n = 0 THEN <<>>
    ELSE ExpectedEvents(fs, n - 1) \o
         ( IF fs[n] = Sentinel THEN <<DoneEvent>>
           ELSE IF FrameDelta(fs[n]) # ""
           THEN << [type |-> "answer", text |-> TextUpTo(fs, n),
                    messageId |-> FirstIdUpTo(fs, n),
                    conversationId |-> FirstIdUpTo(fs, n)] >>
           ELSE <<>> )

\* C6: a stream of well-formed delta frames ended by the sentinel yields one
\* Answer per frame with a non-empty delta, carrying the concatenation of the
\* deltas so far and, as messageId and conversationId, the id of the first
\* frame that carried one, and then Done.
C6_DeltaStream ==
    ( /\ frames # <<>>
      /\ frames[Len(frames)] = Sentinel
      /\ \A i \in 1..(Len(frames) - 1) : IsDeltaFrame(frames[i]) )
    => events = ExpectedEvents(frames, Len(frames))

C6_Witness ==
    /\ frames = << [kind |-> "object", id |-> "m1", choices |-> "one",
                    first |-> [finish |-> "null", hasContent |-> TRUE, content |-> "Hel"],
                    second |-> NoChoice],
                   [kind |-> "object", id |-> "", choices |-> "one",
                    first |-> [finish |-> "null", hasContent |-> TRUE, content |-> "lo"],
                    second |-> NoChoice],
                   Sentinel >>
    /\ events = << [type |-> "answer", text |-> "Hel",
                    messageId |-> "m1", conversationId |-> "m1"],
                   [type |-> "answer", text |-> "Hello",
                    messageId |-> "m1", conversationId |-> "m1"],
                   [type |-> "done"] >>

\* C7: the message identifier is write-once: it is the id of the first frame
\* that carried one, and no later frame changes it.
C7_WriteOnce ==
    /\ [](messageId = FirstIdUpTo(frames, Len(frames)))
    /\ [][messageId # "" => messageId' = messageId]_vars

C7_Witness ==
    /\ messageId = "m1"
    /\ \E i \in 1..Len(frames) : frames[i].id = "m2"

----------------------------------------------------------------------------
(* Frames that emit no Answer.                                             *)

\* C8: a frame whose delta is absent or empty never emits an Answer, and a
\* stop frame without content emits Done alone.
C8_NoEmptyAnswer ==
    [][\A f \in Frames :
          (frames' = Append(frames, f) /\ FrameDelta(f) = "")
          => /\ Answers(events') = Answers(events)
             /\ IsStopFrame(f) => events' = Append(events, DoneEvent)]_vars

C8_Witness ==
    /\ frames # <<>>
    /\ IsStopFrame(frames[Len(frames)])
    /\ FrameDelta(frames[Len(frames)]) = ""
    /\ events = <<DoneEvent>>

\* C9: a payload that is not JSON is skipped: it emits no event, changes
\* neither the text nor the id, is never reported as an Error, and leaves the
\* stream open, so that a completion frame right after it still emits Done.
C9_MalformedSkipped ==
    /\ [](NumError(events) = 0)
    /\ [][frames' = Append(frames, Malformed)
             => /\ events' = events
                /\ result' = result
                /\ messageId' = messageId
                /\ transport' = "streaming"]_vars
    /\ [][\A f \in Frames :
             ( /\ frames # <<>>
               /\ frames[Len(frames)] = Malformed
               /\ frames' = Append(frames, f)
               /\ IsCompletion(f) )
             => events' = Append(events, DoneEvent)]_vars

C9_Witness ==
    /\ Len(frames) = 3
    /\ FrameDelta(frames[1]) = "Hel"
    /\ frames[2] = Malformed
    /\ IsStopFrame(frames[3])
    /\ Len(events) = 2
    /\ events[2] = DoneEvent
    /\ pc = "returned"

----------------------------------------------------------------------------
(* Cancellation.                                                           *)

\* C10: once the caller's signal is triggered, the call emits no further
\* event, and no Error event because of the cancellation.
C10_NoEventAfterAbort ==
    [][aborted => (events' = events /\ NumError(events') = 0)]_vars

C10_Witness ==
    /\ aborted
    /\ transport = "aborted"
    /\ pc = "rejected"
    /\ frames # <<>>
    /\ Len(Answers(events)) >= 1

----------------------------------------------------------------------------
(* Ordering.                                                               *)

\* C11: events are emitted in the order of their frames: the events already
\* emitted never change, an event is emitted only while a frame is handled,
\* and one frame emits at most one event, appended after all earlier ones.
C11_FrameOrder ==
    [][ \/ events' = events
        \/ /\ \E f \in Frames : frames' = Append(frames, f)
           /\ \E e \in {DoneEvent} \cup {AnswerEvent(result', messageId')} :
                 events' = Append(events, e) ]_vars

C11_Witness ==
    /\ Len(frames) = 3
    /\ FrameDelta(frames[1]) = "lo"
    /\ FrameDelta(frames[2]) = "Hel"
    /\ frames[3] = Sentinel
    /\ Len(events) = 3
    /\ events[1].type = "answer" /\ events[1].text = "lo"
    /\ events[2].type = "answer" /\ events[2].text = "loHel"
    /\ events[3] = DoneEvent

----------------------------------------------------------------------------
(* Several generateAnswer calls on one provider instance.  In this          *)
(* specification every variable is a function of the call: pc[c],           *)
(* transport[c] (the state of the call's fetchSSE, the prompt of the call   *)
(* and the request body handed to fetchSSE), aborted[c], events[c],         *)
(* frames[c]; result and messageId are functions of the binding that holds  *)
(* them.                                                                    *)

\* Bounds: the number of calls, and the number of frames delivered to all
\* calls together.
NumCalls == 2
MaxTotalFrames == 3

Calls == 1..NumCalls

\* params.prompt
Prompts == {"p", "q"}

\* The frames delivered to concurrent calls.
ConcFrames ==
    { Sentinel,
      [kind |-> "object", id |-> "m1", choices |-> "one",
       first |-> [finish |-> "null", hasContent |-> TRUE, content |-> "Hel"],
       second |-> NoChoice],
      [kind |-> "object", id |-> "m2", choices |-> "one",
       first |-> [finish |-> "null", hasContent |-> TRUE, content |-> "Hel"],
       second |-> NoChoice],
      [kind |-> "object", id |-> "", choices |-> "one",
       first |-> [finish |-> "null", hasContent |-> TRUE, content |-> "lo"],
       second |-> NoChoice] }

\* constructor(private token, private model, private apiBaseUrl): this.model
ProviderModel == "model"

\* Variant of BuildMessages with the instruction under the role "system".
BuildMessagesSystem(prompt) ==
    << [role |-> "system", content |-> "You are a helpful assistant."],
       [role |-> "user", content |-> prompt] >>

\* buildMessages(prompt) (lines 11-16)
BuildMessages(prompt) ==
    << [role |-> "developer", content |-> "You are a helpful assistant."],
       [role |-> "user", content |-> prompt] >>

\* body: JSON.stringify({ model, messages, stream: true }) (lines 28-32)
RequestBody(prompt) ==
    [model |-> ProviderModel, messages |-> BuildMessages(prompt), stream |-> TRUE]

\* Variant of StateOf: result and messageId kept on the provider instance,
\* one binding for all its calls.
StateOfInstance(c) == 1

\* let result = '', let messageId = '' (lines 19-20) are locals of
\* generateAnswer: every invocation c has its own binding.
StateOf(c) == c

InitC ==
    /\ pc = [c \in Calls |-> "idle"]
    /\ transport = [c \in Calls |-> [state |-> "idle", prompt |-> "", body |-> <<>>]]
    /\ aborted = [c \in Calls |-> FALSE]
    /\ result = [c \in Calls |-> ""]
    /\ messageId = [c \in Calls |-> ""]
    /\ events = [c \in Calls |-> <<>>]
    /\ frames = [c \in Calls |-> <<>>]

TotalFrames ==
    LET RECURSIVE Sum(_)
        Sum(n) == IF n = 0 THEN 0 ELSE Sum(n - 1) + Len(frames[n])
    IN Sum(NumCalls)

\* Call c starts: its bindings are initialised and the request is issued.
CallC(c) ==
    /\ pc[c] = "idle"
    /\ \E prompt \in Prompts :
          transport' = [transport EXCEPT ![c] =
              [state |-> "streaming", prompt |-> prompt, body |-> RequestBody(prompt)]]
    /\ pc' = [pc EXCEPT ![c] = "awaiting"]
    /\ result' = [result EXCEPT ![StateOf(c)] = ""]
    /\ messageId' = [messageId EXCEPT ![StateOf(c)] = ""]
    /\ UNCHANGED <<aborted, events, frames>>

\* The transport of call c invokes the onMessage of call c.
DeliverC(c) ==
    /\ transport[c].state = "streaming"
    /\ TotalFrames < MaxTotalFrames
    /\ \E message \in ConcFrames :
          LET r == OnMessage(result[StateOf(c)], messageId[StateOf(c)], message) IN
          /\ result' = [result EXCEPT ![StateOf(c)] = r.result]
          /\ messageId' = [messageId EXCEPT ![StateOf(c)] = r.messageId]
          /\ events' = [events EXCEPT ![c] = @ \o r.emitted]
          /\ frames' = [frames EXCEPT ![c] = Append(@, message)]
    /\ UNCHANGED <<pc, transport, aborted>>

\* The stream of call c ends.
StreamEndC(c) ==
    /\ transport[c].state = "streaming"
    /\ transport' = [transport EXCEPT ![c].state = "ended"]
    /\ UNCHANGED <<pc, aborted, result, messageId, events, frames>>

\* await fetchSSE(...) of call c resolves; return {}.
ReturnC(c) ==
    /\ pc[c] = "awaiting"
    /\ transport[c].state = "ended"
    /\ pc' = [pc EXCEPT ![c] = "returned"]
    /\ UNCHANGED <<transport, aborted, result, messageId, events, frames>>

NextC ==
    \/ \E c \in Calls : CallC(c)
    \/ \E c \in Calls : DeliverC(c)
    \/ \E c \in Calls : StreamEndC(c)
    \/ \E c \in Calls : ReturnC(c)

SpecC == InitC /\ [][NextC]_vars

\* What a call that runs alone makes of the frames fs[1..n].
RECURSIVE RunAlone(_, _)
RunAlone(fs, n) ==
    IF n = 0 THEN [result |-> "", messageId |-> "", events |-> <<>>]
    ELSE LET prev == RunAlone(fs, n - 1)
             r == OnMessage(prev.result, prev.messageId, fs[n])
         IN [result |-> r.result, messageId |-> r.messageId,
             events |-> prev.events \o r.emitted]

\* C12: concurrent calls on one provider instance are independent: under any
\* interleaving of their frames the events, the accumulated text and the
\* recorded identifier of each call are those of the call run alone on its
\* own frames.
C12_CallsIndependent ==
    \A c \in Calls :
        pc[c] # "idle" =>
            LET alone == RunAlone(frames[c], Len(frames[c])) IN
            /\ events[c] = alone.events
            /\ result[c] = alone.result
            /\ messageId[c] = alone.messageId

C12_Witness ==
    /\ Len(frames[1]) = 2 /\ Len(frames[2]) = 1
    /\ pc[1] = "awaiting" /\ pc[2] = "awaiting"
    /\ result[1] = "Hello" /\ messageId[1] = "m1"
    /\ result[2] = "Hel" /\ messageId[2] = "m2"
    /\ Len(events[1]) = 2 /\ Len(events[2]) = 1

\* C14: the message list sent for a call is the fixed developer instruction
\* followed by the prompt of that call, with streaming requested, whatever
\* the prompts and answers of the other calls on the instance.
C14_RequestFromPromptOnly ==
    \A c \in Calls :
        pc[c] # "idle" =>
            /\ transport[c].body.messages =
                   << [role |-> "developer", content |-> "You are a helpful assistant."],
                      [role |-> "user", content |-> transport[c].prompt] >>
            /\ transport[c].body.stream = TRUE
            /\ \A d \in Calls :
                   (pc[d] # "idle" /\ transport[d].prompt = transport[c].prompt)
                       => transport[d].body = transport[c].body

C14_Witness ==
    /\ pc[1] = "returned"
    /\ Len(Answers(events[1])) >= 1
    /\ pc[2] = "awaiting"
    /\ transport[1].prompt = "p"
    /\ transport[2].prompt = "q"
    /\ transport[2].body.messages[2].content = "q"

----------------------------------------------------------------------------
(* The SSE transport reading one response body in network chunks (section  *)
(* 4.1 of the specification, steps 3 and 4).  In this specification         *)
(* transport is a record: the payloads the server sent, the text of the     *)
(* body (wire), the number of its characters that have arrived (pos), the   *)
(* text buffer, whether some chunk ended inside a frame (cutInFrame) and    *)
(* the state of the read; frames holds the payload texts handed to          *)
(* onMessage.                                                               *)

\* Bound: the number of complete frames in one response body.
MaxSseFrames == 2

\* The payload texts of the frames.
SsePayloads == {"[DONE]", "{}", "x"}

\* A body may end in a frame that was cut off.
SseTails == {"", "data: x"}

\* JSON.parse on a payload text: "{}" is an object without id and choices,
\* "x" is not JSON.
PayloadOf(text) ==
    IF text = "[DONE]" THEN Sentinel
    ELSE IF text = "{}"
    THEN [kind |-> "object", id |-> "", choices |-> "absent",
          first |-> NoChoice, second |-> NoChoice]
    ELSE Malformed

\* The wire text of a sequence of payloads: data: <payload>\n\n per event.
RECURSIVE Wire(_)
Wire(ps) == IF ps = <<>> THEN "" ELSE "data: " \o Head(ps) \o "\n\n" \o Wire(Tail(ps))

\* The position of the first blank line (two line terminators) in buf, 0 when
\* there is none.
Boundary(buf) ==
    LET at == {i \in 1..(Len(buf) - 1) : SubSeq(buf, i, i + 1) = "\n\n"} IN
    IF at = {} THEN 0 ELSE CHOOSE i \in at : \A j \in at : i <= j

\* The payload of one frame: the text after the data: prefix.
FramePayload(frame) ==
    IF Len(frame) >= 6 /\ SubSeq(frame, 1, 6) = "data: " THEN SubSeq(frame, 7, Len(frame))
    ELSE IF Len(frame) >= 5 /\ SubSeq(frame, 1, 5) = "data:" THEN SubSeq(frame, 6, Len(frame))
    ELSE frame

\* Repeatedly cut the complete frames off the front of the buffer.
RECURSIVE Drain(_)
Drain(buf) ==
    LET b == Boundary(buf) IN
    IF b = 0 THEN [buffer |-> buf, payloads |-> <<>>]
    ELSE LET rest == Drain(SubSeq(buf, b + 2, Len(buf))) IN
         [buffer |-> rest.buffer,
          payloads |-> <<FramePayload(SubSeq(buf, 1, b - 1))>> \o rest.payloads]

\* Variant of Feed that scans each chunk on its own, keeping no remainder.
FeedChunkOnly(buf, chunk) == Drain(chunk)

\* New bytes arrive: append them to the buffer, then extract the complete frames.
Feed(buf, chunk) == Drain(buf \o chunk)

\* onMessage invoked for each payload text in turn.
RECURSIVE HandleAll(_, _, _)
HandleAll(res, mid, texts) ==
    IF texts = <<>> THEN [result |-> res, messageId |-> mid, emitted |-> <<>>]
    ELSE LET r == OnMessage(res, mid, PayloadOf(Head(texts)))
             rest == HandleAll(r.result, r.messageId, Tail(texts))
         IN [result |-> rest.result, messageId |-> rest.messageId,
             emitted |-> r.emitted \o rest.emitted]

SseStreams ==
    UNION { [1..n -> SsePayloads] : n \in 0..MaxSseFrames }

InitS ==
    /\ pc = "awaiting"
    /\ aborted = FALSE
    /\ result = ""
    /\ messageId = ""
    /\ events = <<>>
    /\ frames = <<>>
    /\ \E ps \in SseStreams, tail \in SseTails :
          transport = [payloads |-> ps, wire |-> Wire(ps) \o tail, pos |-> 0,
                       buffer |-> "", cutInFrame |-> FALSE, state |-> "streaming"]

\* A chunk of any size arrives; every frame it completes is handed to onMessage.
ReadChunk ==
    /\ transport.state = "streaming"
    /\ transport.pos < Len(transport.wire)
    /\ \E k \in 1..(Len(transport.wire) - transport.pos) :
          LET chunk == SubSeq(transport.wire, transport.pos + 1, transport.pos + k)
              fed == Feed(transport.buffer, chunk)
              r == HandleAll(result, messageId, fed.payloads)
          IN /\ transport' = [transport EXCEPT
                    !.pos = @ + k,
                    !.buffer = fed.buffer,
                    !.cutInFrame = @ \/ (fed.buffer # "" /\ transport.pos + k < Len(transport.wire))]
             /\ frames' = frames \o fed.payloads
             /\ result' = r.result
             /\ messageId' = r.messageId
             /\ events' = events \o r.emitted
    /\ UNCHANGED <<pc, aborted>>

\* No more bytes: what is left in the buffer is discarded.
ReadEnd ==
    /\ transport.state = "streaming"
    /\ transport.pos = Len(transport.wire)
    /\ transport' = [transport EXCEPT !.state = "ended", !.buffer = ""]
    /\ UNCHANGED <<pc, aborted, result, messageId, events, frames>>

\* await fetchSSE(...) resolves; return {}.
ReturnS ==
    /\ pc = "awaiting"
    /\ transport.state = "ended"
    /\ pc' = "returned"
    /\ UNCHANGED <<transport, aborted, result, messageId, events, frames>>

NextS ==
    \/ ReadChunk
    \/ ReadEnd
    \/ ReturnS

SpecS == InitS /\ [][NextS]_vars

\* The payloads extracted from the body delivered unsplit, as one chunk.
Unsplit(wire) == Feed("", wire).payloads

\* C13: frame extraction does not depend on the chunk boundaries: whatever
\* chunks the body arrived in, the payloads handed to the callback so far are,
\* in order, those of the arrived text delivered unsplit, and at the end of a
\* body they are the payloads the server sent.
C13_ChunkInsensitive ==
    /\ frames = Unsplit(SubSeq(transport.wire, 1, transport.pos))
    /\ transport.state = "ended" =>
           frames = [i \in 1..Len(transport.payloads) |-> transport.payloads[i]]

C13_Witness ==
    /\ transport.state = "ended"
    /\ transport.cutInFrame
    /\ frames = <<"{}", "[DONE]">>
    /\ events = <<DoneEvent>>

----------------------------------------------------------------------------
(* The first choice of a frame (claims checked under Spec).                *)

\* The frame handled by a step that hands a frame to onMessage.
Handled == frames'[Len(frames')]
FrameStep == Len(frames') = Len(frames) + 1

\* A parsed object with at least one choice.
HasFirstChoice(f) == f.kind = "object" /\ f.choices \in {"one", "two"}

\* C15: only the finish reason "stop" emits Done from a JSON frame: a frame
\* whose first choice has another finish reason (null or absent, "length")
\* emits no Done, and its delta is appended and emitted like any other delta.
C15_OnlyStopEnds ==
    [][ (FrameStep /\ HasFirstChoice(Handled) /\ Handled.first.finish # "stop")
        => /\ NumDone(events') = NumDone(events)
           /\ result' = result \o FrameDelta(Handled)
           /\ IF FrameDelta(Handled) # ""
              THEN events' = Append(events,
                       [type |-> "answer", text |-> result \o FrameDelta(Handled),
                        messageId |-> messageId', conversationId |-> messageId'])
              ELSE events' = events ]_vars

C15_Witness ==
    /\ Len(frames) = 2
    /\ frames[2].first.finish = "length"
    /\ result = "Hello"
    /\ Len(events) = 2
    /\ events[2].type = "answer" /\ events[2].text = "Hello"

\* C16: only the first element of choices affects the call: with two choices
\* the text and the event are those the first choice alone gives, whatever
\* delta or finish reason the second one has; absent or empty choices emit
\* no event.
C16_FirstChoiceOnly ==
    [][ FrameStep =>
        /\ Handled.choices = "two" =>
              IF Handled.first.finish = "stop"
              THEN result' = result /\ events' = Append(events, DoneEvent)
              ELSE IF Handled.first.hasContent /\ Handled.first.content # ""
              THEN /\ result' = result \o Handled.first.content
                   /\ Len(events') = Len(events) + 1
                   /\ events'[Len(events')].type = "answer"
                   /\ events'[Len(events')].text = result'
              ELSE result' = result /\ events' = events
        /\ (Handled.kind = "object" /\ Handled.choices \in {"absent", "empty"})
              => (result' = result /\ events' = events) ]_vars

C16_Witness ==
    /\ Len(frames) = 2
    /\ frames[1].choices = "two" /\ frames[1].second.finish = "stop"
    /\ frames[2].choices = "two" /\ frames[2].second.content = "lo"
    /\ frames[2].first.finish = "null"
    /\ result = "Hel"
    /\ Len(events) = 1
    /\ events[1].type = "answer" /\ events[1].text = "Hel"

\* C17: a stop frame that also carries a non-empty delta emits Done and its
\* delta is discarded: the text is unchanged and no Answer is emitted.
C17_StopDeltaDiscarded ==
    [][ (FrameStep /\ IsStopFrame(Handled) /\ FrameDelta(Handled) # "")
        => /\ result' = result
           /\ events' = Append(events, DoneEvent) ]_vars

\* The last Answer is shorter than the concatenation of all deltas received.
C17_Witness ==
    /\ Len(frames) = 2
    /\ IsStopFrame(frames[2])
    /\ TextUpTo(frames, 2) = "Hello"
    /\ result = "Hel"
    /\ Len(events) = 2
    /\ events[1].type = "answer" /\ events[1].text = "Hel"
    /\ events[2] = DoneEvent

----------------------------------------------------------------------------
(* Counting the Answer events.                                             *)

StrictlyGrowing(A) ==
    /\ \A i \in 1..Len(A) : A[i].text # ""
    /\ \A i \in 1..(Len(A) - 1) :
          /\ Len(A[i].text) < Len(A[i + 1].text)
          /\ A[i].text # A[i + 1].text

\* C18 as stated: every Answer text is non-empty and strictly longer than the
\* previous one, and there are as many Answer events as processed frames
\* with a non-empty delta.
C18_AnswerPerDelta ==
    /\ StrictlyGrowing(Answers(events))
    /\ Len(Answers(events)) =
           Cardinality({i \in 1..Len(frames) : FrameDelta(frames[i]) # ""})

\* C18 amended: every Answer text is non-empty and strictly longer than the
\* previous one, and there are as many Answer events as processed frames
\* with a non-empty delta whose first choice has no finish_reason "stop".
C18_AnswerPerNonStopDelta ==
    /\ StrictlyGrowing(Answers(events))
    /\ Len(Answers(events)) =
           Cardinality({i \in 1..Len(frames) :
                           FrameDelta(frames[i]) # "" /\ ~IsStopFrame(frames[i])})

C18_Witness ==
    /\ Len(frames) = 3
    /\ IsStopFrame(frames[2]) /\ FrameDelta(frames[2]) = "lo"
    /\ Len(Answers(events)) = 2
    /\ Answers(events)[1].text = "Hel"
    /\ Answers(events)[2].text = "Hello"

----------------------------------------------------------------------------
(* The identifier carried by the Answer events.                            *)

\* C19: every Answer carries the same messageId and conversationId, which is
\* the id of the first frame so far that carried one (also a frame that
\* emitted no event), the empty string when none did; so the ids of the
\* Answer events are empty up to some point and one same id from then on.
C19_AnswerIds ==
    /\ [][ (FrameStep /\ Len(events') = Len(events) + 1
                      /\ events'[Len(events')].type = "answer")
           => /\ events'[Len(events')].messageId = FirstIdUpTo(frames', Len(frames'))
              /\ events'[Len(events')].conversationId = FirstIdUpTo(frames', Len(frames')) ]_vars
    /\ [](LET A == Answers(events) IN
          \A i \in 1..Len(A) : \A j \in i..Len(A) :
              /\ A[i].messageId = A[i].conversationId
              /\ A[i].messageId # "" => A[j].messageId = A[i].messageId)

C19_Witness ==
    /\ Len(frames) = 3
    /\ FrameDelta(frames[1]) = "Hel" /\ frames[1].id = ""
    /\ frames[2].choices = "absent" /\ frames[2].id = "m2"
    /\ FrameDelta(frames[3]) = "lo" /\ frames[3].id = "m1"
    /\ Len(events) = 2
    /\ events[1].messageId = "" /\ events[1].conversationId = ""
    /\ events[2].messageId = "m2" /\ events[2].conversationId = "m2"

----------------------------------------------------------------------------
(* Completion of generateAnswer.                                           *)

\* C20: generateAnswer finishes only after the transport has finished (it
\* returns after a natural end and fails after a transport failure), and no
\* event is emitted once it has returned or failed.
C20_FinishAfterTransport ==
    /\ [](pc = "returned" => transport = "ended")
    /\ [](pc = "rejected" => TransportFailed)
    /\ [][Finished => (events' = events /\ frames' = frames /\ pc' = pc)]_vars

C20_Witness ==
    /\ pc = "returned"
    /\ transport = "ended"
    /\ Len(frames) = 3
    /\ Len(events) = 3

====
